---- MODULE Spec2Model ----
(***************************************************************************)
(* A model of csnanalysis/csn.py: count_to_trans, symmetrize and the class  *)
(* CSN (__init__, add_attr, trim_graph).                                    *)
(*                                                                         *)
(* Numbers are exact rationals <<n, d>> in lowest terms (d > 0).  A matrix  *)
(* of dimension n is a function [0..n-1 -> [0..n-1 -> rational]].  The      *)
(* instance is the record self, whose domain is the set of attributes set   *)
(* on it so far (the instance __dict__).                                    *)
(***************************************************************************)
EXTENDS Integers, Sequences, FiniteSets, TLC

VARIABLES counts, self, phase, raised, trimcall

vars == <<counts, self, phase, raised, trimcall>>

(* ------------------------------ bounds --------------------------------- *)
\* the largest number of states (nodes) of an input
MaxN == 3
\* the largest number of observed transitions tallied in an input
MaxTransitions == 2
\* the largest min_count argument
MaxMinCount == 2

(* --------------------------- exact rationals --------------------------- *)
RECURSIVE GCD(_, _)
GCD(a, b) == IF b = 0 THEN a ELSE GCD(b, a % b)

Rat(n, d) == IF n = 0 THEN <<0, 1>> ELSE LET g == GCD(n, d) IN <<n \div g, d \div g>>
Zero == Rat(0, 1)
One == Rat(1, 1)
Half == Rat(1, 2)
RAdd(a, b) == Rat(a[1] * b[2] + b[1] * a[2], a[2] * b[2])
RMul(a, b) == Rat(a[1] * b[1], a[2] * b[2])
RDiv(a, b) == Rat(a[1] * b[2], a[2] * b[1])
RLt(a, b) == a[1] * b[2] < b[1] * a[2]
RGe(a, b) == ~RLt(a, b)
RGt0(a) == a[1] > 0

Dim(M) == Cardinality(DOMAIN M)
Idx(n) == 0 .. (n - 1)

RECURSIVE RSumTo(_, _)
RSumTo(row, k) == IF k = 0 THEN Zero ELSE RAdd(RSumTo(row, k - 1), row[k - 1])
\* numpy sum of one row
RowSum(row) == RSumTo(row, Dim(row))

(* ------------------------- module-level functions ---------------------- *)
\* scipy.sparse.coo_matrix(counts): the integer input as a sparse matrix
coo_matrix(M) == [i \in DOMAIN M |-> [j \in DOMAIN M |-> Rat(M[i][j], 1)]]

\* a plausible slip: normalising by the column sums (the code's own variable name)
count_to_trans_colsums(countmat) ==
    LET n == Dim(countmat)
        col(j) == [i \in Idx(n) |-> countmat[i][j]]
    IN  [i \in Idx(n) |-> [j \in Idx(n) |->
            IF RGt0(RowSum(col(i))) THEN RDiv(countmat[i][j], RowSum(col(i)))
            ELSE countmat[i][j]]]

count_to_trans(countmat) ==
    LET n == Dim(countmat)
        colsums == [i \in Idx(n) |-> RowSum(countmat[i])]
    IN  [i \in Idx(n) |-> [j \in Idx(n) |->
            IF RGt0(colsums[i]) THEN RDiv(countmat[i][j], colsums[i])
            ELSE countmat[i][j]]]

symmetrize(countmat) ==
    [i \in DOMAIN countmat |-> [j \in DOMAIN countmat |->
        RMul(Half, RAdd(countmat[i][j], countmat[j][i]))]]

(* ------------------------------ the graph ------------------------------ *)
\* A DiGraph is [node |-> the attribute dictionary of every node,
\*               adj |-> for every node, its out-edges <<target, weight>> in
\*                       insertion order]

\* coo_matrix(dense) of one row: the non-zero entries <<column, value>>,
\* columns ascending (the matrix is stored in row-major order)
RECURSIVE CooRow(_, _)
CooRow(row, k) ==
    IF k = 0 THEN <<>>
    ELSE IF row[k - 1] # Zero THEN Append(CooRow(row, k - 1), <<k - 1, row[k - 1]>>)
         ELSE CooRow(row, k - 1)

\* a plausible slip: zip(col, row, data), the edge direction reversed
BuildGraph_swapped(transmat, n) ==
    [node |-> [i \in Idx(n) |-> [ID |-> i]],
     adj |-> [i \in Idx(n) |-> CooRow([j \in Idx(n) |-> transmat[j][i]], n)]]

\* nx.DiGraph(); add_nodes_from(zip(range(n), labels));
\* add_weighted_edges_from(zip(transmat.row, transmat.col, transmat.data))
BuildGraph(transmat, n) ==
    [node |-> [i \in Idx(n) |-> [ID |-> i]],
     adj |-> [i \in Idx(n) |-> CooRow(transmat[i], n)]]

\* G[u]: the out-neighbours of u in insertion order
Adj(G, u) == [k \in 1 .. Len(G.adj[u]) |-> G.adj[u][k][1]]

\* networkx dfs_edges: the iterative depth-first search; stack holds
\* <<parent, position of the next child in G[parent]>>
RECURSIVE DfsLoop(_, _, _, _)
DfsLoop(G, stack, visited, acc) ==
    IF stack = <<>> THEN acc
    ELSE LET top == Len(stack)
             parent == stack[top][1]
             k == stack[top][2]
             children == Adj(G, parent)
         IN  IF k > Len(children)
             THEN DfsLoop(G, SubSeq(stack, 1, top - 1), visited, acc)
             ELSE LET child == children[k]
                      adv == [stack EXCEPT ![top] = <<parent, k + 1>>]
                  IN  IF child \in visited
                      THEN DfsLoop(G, adv, visited, acc)
                      ELSE DfsLoop(G, Append(adv, <<child, 1>>),
                                   visited \cup {child},
                                   Append(acc, <<parent, child>>))

dfs_edges(G, source) == DfsLoop(G, <<<<source, 1>>>>, {source}, <<>>)

\* a plausible slip: only the direct successors of the source
dfs_predecessors_keys_direct(G, source) ==
    {Adj(G, source)[k] : k \in 1 .. Len(Adj(G, source))} \ {source}

\* list(nx.dfs_predecessors(G, source).keys()): every tree edge's target
dfs_predecessors_keys(G, source) ==
    LET e == dfs_edges(G, source) IN {e[k][2] : k \in 1 .. Len(e)}

\* list(nx.dfs_successors(G, source).keys()): every tree edge's source
dfs_successors_keys(G, source) ==
    LET e == dfs_edges(G, source) IN {e[k][1] : k \in 1 .. Len(e)}

\* G.subgraph(nbunch): the subgraph induced on the listed nodes
subgraph(G, nbunch) ==
    LET keep == {nbunch[k] : k \in 1 .. Len(nbunch)} \cap DOMAIN G.node
        sel(e) == e[1] \in keep
    IN  [node |-> [i \in keep |-> G.node[i]],
         adj |-> [i \in keep |-> SelectSeq(G.adj[i], sel)]]

\* nx.set_node_attributes(G, name, attr) with attr = {i: values[i]}, in the
\* argument order of networkx 1.x that the call is written for: every listed
\* node gets the attribute, an earlier value under the same name is replaced
set_node_attributes(G, name, values) ==
    [G EXCEPT !.node = [i \in DOMAIN G.node |->
        IF i \in DOMAIN values
        THEN [a \in DOMAIN G.node[i] \cup {name} |->
                 IF a = name THEN values[i] ELSE G.node[i][a]]
        ELSE G.node[i]]]

(* ------------------------------ inputs --------------------------------- *)
Positions(n) == Idx(n) \X Idx(n)

\* the square count matrices of dimension n that tally at most t observed
\* transitions: entry (i, j) counts the transitions seen from state i to j
RECURSIVE MatricesOfDim(_, _)
MatricesOfDim(n, t) ==
    IF t = 0 THEN {[i \in Idx(n) |-> [j \in Idx(n) |-> 0]]}
    ELSE LET fewer == MatricesOfDim(n, t - 1)
         IN  fewer \cup {[M EXCEPT ![p[1]][p[2]] = @ + 1] :
                            M \in fewer, p \in Positions(n)}

InputMatrices == UNION {MatricesOfDim(n, MaxTransitions) : n \in 1 .. MaxN}

AttrNames == {"ID", "w"}
\* one value per node, in index order
AttrValues(n) == {[i \in Idx(n) |-> n - i]}

(* ------------------------------ helpers -------------------------------- *)
\* the instance dictionary rec with the attributes of new set or overwritten
SetAttrs(rec, new) ==
    [a \in DOMAIN rec \cup DOMAIN new |-> IF a \in DOMAIN new THEN new[a] ELSE rec[a]]

\* the indices below k at which the boolean vector f holds, ascending
RECURSIVE ListWhere(_, _)
ListWhere(f, k) ==
    IF k = 0 THEN <<>>
    ELSE IF f[k - 1] THEN Append(ListWhere(f, k - 1), k - 1) ELSE ListWhere(f, k - 1)

\* numpy argmax: the first index holding the maximum
argmax(v) ==
    CHOOSE i \in DOMAIN v :
        /\ \A j \in DOMAIN v : RGe(v[i], v[j])
        /\ \A j \in DOMAIN v : j < i => RLt(v[j], v[i])

\* `mask[i] is True`: mask[i] is a numpy.bool_ object, which is never the
\* Python singleton True, whatever its value
numpy_bool_is_True(b) == FALSE

\* arr[mask, ...][..., mask]: the rows and columns at which mask holds
MaskBlock(arr, mask) ==
    LET kept == ListWhere(mask, Dim(arr))
        m == Len(kept)
    IN  [a \in Idx(m) |-> [b \in Idx(m) |-> arr[kept[a + 1]][kept[b + 1]]]]

\* the keep-mask of trim_graph after its three filters
TrimMask(G, n, totcounts, msn, by_inflow, by_outflow, min_count) ==
    LET ones == [i \in Idx(n) |-> TRUE]
        downstream == dfs_predecessors_keys(G, msn)
        m1 == IF by_outflow
              THEN [i \in Idx(n) |-> IF i \notin downstream THEN FALSE ELSE ones[i]]
              ELSE ones
        upstream == dfs_successors_keys(G, msn)
        m2 == IF by_inflow
              THEN [i \in Idx(n) |-> IF i \notin upstream THEN FALSE ELSE m1[i]]
              ELSE m1
    IN  IF min_count > 0
        THEN [i \in Idx(n) |->
                 IF RGe(totcounts[i], Rat(min_count, 1)) THEN FALSE ELSE m2[i]]
        ELSE m2

(* ------------------------------ the state ------------------------------ *)
\* counts: the caller's matrix; self: the instance attributes; phase: "new"
\* before the constructor ran, "ok" once it returned, "failed" if it raised;
\* raised: the exception of the latest call; trimcall: the arguments and
\* locals of the trim_graph body that ran on this instance
Init ==
    /\ counts \in InputMatrices
    /\ self = <<>>
    /\ phase = "new"
    /\ raised = "none"
    /\ trimcall = [done |-> FALSE]

\* CSN(counts, symmetrize=symmetrize_arg)
Construct(symmetrize_arg) ==
    /\ phase = "new"
    /\ LET countmat == coo_matrix(counts)
           nnodes == Dim(countmat)
           transmat == count_to_trans(countmat)
       IN  IF symmetrize_arg
           \* inside __init__ the name symmetrize is the boolean parameter,
           \* so symmetrize(self.countmat) calls True
           THEN /\ self' = [countmat |-> countmat, symmetrize |-> symmetrize_arg]
                /\ phase' = "failed"
                /\ raised' = "TypeError"
           ELSE /\ self' = [countmat |-> countmat, symmetrize |-> symmetrize_arg,
                            nnodes |-> nnodes, transmat |-> transmat,
                            graph |-> BuildGraph(transmat, nnodes)]
                /\ phase' = "ok"
                /\ raised' = "none"
    /\ UNCHANGED <<counts, trimcall>>

\* csn.add_attr(name, values), values holding one value per node
add_attr(name) ==
    /\ phase = "ok"
    /\ \E values \in AttrValues(self.nnodes) :
           self' = [self EXCEPT !.graph = set_node_attributes(self.graph, name, values)]
    /\ raised' = "none"
    /\ UNCHANGED <<counts, phase, trimcall>>

\* csn.trim_graph(by_inflow, by_outflow, min_count), while the attribute lookup
\* of trim_graph finds the method of the class
trim_graph(by_inflow, by_outflow, min_count) ==
    /\ phase = "ok"
    /\ "trim_graph" \notin DOMAIN self
    /\ LET totcounts == [i \in Idx(self.nnodes) |-> RowSum(self.countmat[i])]
           msn == argmax(totcounts)
           mask == TrimMask(self.graph, self.nnodes, totcounts, msn,
                            by_inflow, by_outflow, min_count)
           trim_indices == ListWhere([i \in Idx(self.nnodes) |->
                                         numpy_bool_is_True(mask[i])], self.nnodes)
           tmp_arr == MaskBlock(self.countmat, mask)
           trim_countmat == IF self.symmetrize THEN symmetrize(tmp_arr) ELSE tmp_arr
       IN  /\ self' = SetAttrs(self,
                       [trim_indices |-> trim_indices,
                        trim_graph |-> subgraph(self.graph, trim_indices),
                        trim_countmat |-> trim_countmat,
                        trim_nnodes |-> Dim(trim_countmat),
                        trim_transmat |-> count_to_trans(trim_countmat)])
           /\ trimcall' = [done |-> TRUE, by_inflow |-> by_inflow,
                           by_outflow |-> by_outflow, min_count |-> min_count,
                           totcounts |-> totcounts, msn |-> msn, mask |-> mask]
           /\ raised' = "none"
    /\ UNCHANGED <<counts, phase>>

\* csn.trim_graph(...) with any arguments, once an earlier call has stored the
\* subgraph under the method's own name: the attribute lookup finds the
\* DiGraph in the instance dictionary, which is not callable
trim_graph_shadowed ==
    /\ phase = "ok"
    /\ "trim_graph" \in DOMAIN self
    /\ raised' = "TypeError"
    /\ UNCHANGED <<counts, self, phase, trimcall>>

Next ==
    \/ \E symmetrize_arg \in BOOLEAN : Construct(symmetrize_arg)
    \/ \E name \in AttrNames : add_attr(name)
    \/ \E by_inflow \in BOOLEAN : \E by_outflow \in BOOLEAN :
           \E min_count \in 0 .. MaxMinCount :
               trim_graph(by_inflow, by_outflow, min_count)
    \/ trim_graph_shadowed

Spec == Init /\ [][Next]_vars

(* ------------------------- vocabulary of the claims -------------------- *)
Constructed == phase = "ok"
\* the body of trim_graph has run on the instance
Trimmed == phase = "ok" /\ trimcall.done

\* row sum of row i of the instance's count matrix
Total(i) == RowSum(self.countmat[i])
\* the most-sampled node: the lowest index with maximum row sum
MSN ==
    CHOOSE m \in Idx(self.nnodes) :
        /\ \A j \in Idx(self.nnodes) : RGe(Total(m), Total(j))
        /\ \A j \in Idx(m) : Total(j) # Total(m)

\* the weighted edges <<source, target, weight>> of G, and its edges
WeightedEdges(G) ==
    UNION {{<<i, G.adj[i][k][1], G.adj[i][k][2]>> : k \in 1 .. Len(G.adj[i])}
           : i \in DOMAIN G.adj}
EdgeSet(G) == {<<e[1], e[2]>> : e \in WeightedEdges(G)}
\* the nodes reached from the set S by following one or more edges of G
RECURSIVE ReachFrom(_, _)
ReachFrom(E, S) ==
    LET T == S \cup {e[2] : e \in {x \in E : x[1] \in S}}
    IN  IF T = S THEN S ELSE ReachFrom(E, T)
Descendants(G, u) ==
    LET E == EdgeSet(G) IN ReachFrom(E, {e[2] : e \in {x \in E : x[1] = u}})
IsAncestor(G, i, u) == u \in Descendants(G, i)

Survivors == {i \in Idx(self.nnodes) : trimcall.mask[i]}
InList(x, list) == \E k \in 1 .. Len(list) : list[k] = x
StrictlyAscending(list) == \A k \in 1 .. Len(list) - 1 : list[k] < list[k + 1]
IsSquare(M, m) == DOMAIN M = Idx(m) /\ \A i \in Idx(m) : DOMAIN M[i] = Idx(m)

(* C1: whenever trim_graph runs with at least one filter enabled (by_outflow, *)
(* by_inflow, or 0 < min_count <= the MSN's total count), the most-sampled    *)
(* node is retained: the keep-mask holds at the MSN, the MSN is in            *)
(* trim_indices and trim_countmat has a row for it.                           *)
C1_MsnRetained ==
    (Trimmed /\ (\/ trimcall.by_outflow
                 \/ trimcall.by_inflow
                 \/ (trimcall.min_count > 0
                       /\ RGe(Total(MSN), Rat(trimcall.min_count, 1)))))
    => /\ trimcall.mask[MSN]
       /\ InList(MSN, self.trim_indices)
       /\ self.trim_nnodes >= 1

(* C2: after any trim_graph call, trim_indices is strictly ascending and its  *)
(* length equals the number of rows and of columns of trim_countmat and of    *)
(* trim_transmat, and equals trim_nnodes.                                     *)
C2_IndicesMatchMatrices ==
    Trimmed
    => /\ StrictlyAscending(self.trim_indices)
       /\ IsSquare(self.trim_countmat, Len(self.trim_indices))
       /\ IsSquare(self.trim_transmat, Len(self.trim_indices))
       /\ self.trim_nnodes = Len(self.trim_indices)

(* C3: trim_graph(by_inflow=False, by_outflow=False, min_count=0) retains all *)
(* N nodes: trim_indices is [0, ..., N-1], the trimmed subgraph has the nodes *)
(* and edges of graph, and trim_countmat equals countmat.                     *)
C3_NoFilterKeepsAll ==
    (Trimmed /\ ~trimcall.by_inflow /\ ~trimcall.by_outflow /\ trimcall.min_count = 0)
    => /\ self.trim_indices = [k \in 1 .. self.nnodes |-> k - 1]
       /\ DOMAIN self.trim_graph.node = Idx(self.nnodes)
       /\ WeightedEdges(self.trim_graph) = WeightedEdges(self.graph)
       /\ self.trim_countmat = self.countmat

(* C4: constructing a CSN with symmetrize=True succeeds and yields            *)
(* countmat = 0.5*(M + transpose(M)), transmat the row-normalisation of that  *)
(* symmetrized matrix, and the flag stored as true on the instance.           *)
C4_SymmetrizedConstruction ==
    (phase # "new" /\ self.symmetrize)
    => /\ phase = "ok"
       /\ raised = "none"
       /\ \A i \in DOMAIN counts : \A j \in DOMAIN counts :
              self.countmat[i][j] = Rat(counts[i][j] + counts[j][i], 2)
       /\ self.transmat = count_to_trans(self.countmat)

(* C5: with by_inflow=False, by_outflow=False and min_count > 0, node i       *)
(* survives the keep-mask if and only if its total row count is >= min_count. *)
C5_MinCountKeepsAtOrAbove ==
    (Trimmed /\ ~trimcall.by_inflow /\ ~trimcall.by_outflow /\ trimcall.min_count > 0)
    => \A i \in Idx(self.nnodes) :
           trimcall.mask[i] <=> RGe(Total(i), Rat(trimcall.min_count, 1))

(* C6: with by_inflow the only enabled filter, every node other than the MSN  *)
(* survives the keep-mask if and only if it is an ancestor of the MSN (there  *)
(* is a directed path of one or more graph edges from it to the MSN).         *)
C6_InflowKeepsAncestors ==
    (Trimmed /\ trimcall.by_inflow /\ ~trimcall.by_outflow /\ trimcall.min_count = 0)
    => \A i \in Idx(self.nnodes) \ {MSN} :
           trimcall.mask[i] <=> IsAncestor(self.graph, i, MSN)

(* C7: with by_outflow the only enabled filter, every node other than the MSN *)
(* survives the keep-mask (and so gets a row and column of trim_countmat) if  *)
(* and only if it is a descendant of the MSN (there is a directed path of one *)
(* or more graph edges from the MSN to it).                                   *)
C7_OutflowKeepsDescendants ==
    (Trimmed /\ trimcall.by_outflow /\ ~trimcall.by_inflow /\ trimcall.min_count = 0)
    => /\ \A i \in Idx(self.nnodes) \ {MSN} :
              trimcall.mask[i] <=> i \in Descendants(self.graph, MSN)
       /\ IsSquare(self.trim_countmat, Cardinality(Survivors))

\* C7's case: the MSN is not node 0 and a node that no edge joins to the MSN
\* directly survives, being two edges away
C7_Witness ==
    /\ Trimmed /\ trimcall.by_outflow /\ ~trimcall.by_inflow /\ trimcall.min_count = 0
    /\ MSN # 0
    /\ \E i \in Idx(self.nnodes) \ {MSN} :
           /\ trimcall.mask[i]
           /\ <<MSN, i>> \notin EdgeSet(self.graph)

(* C8: trim_graph may be called any number of times on one instance: a call  *)
(* made after a completed one also completes without error and overwrites the *)
(* trim_* fields.  On a constructed instance only a trim_graph call leaves    *)
(* raised set (add_attr clears it), so the claim requires raised to be "none" *)
(* in every state in which the trim has run.                                  *)
C8_TrimRepeatable ==
    Trimmed => raised = "none"

(* C9: count_to_trans(C) has the shape of C; each row with a positive sum     *)
(* equals C[i]/rowsum(C[i]) and sums to 1; a row is all-zero exactly when the *)
(* sum of C[i] is 0; the input matrix is left as it was.  Checked of          *)
(* transmat against countmat and of trim_transmat against trim_countmat.      *)
RowStochastic(C, T) ==
    /\ DOMAIN T = DOMAIN C
    /\ \A i \in DOMAIN C :
          LET total == RowSum(C[i])
              tsum == RowSum(T[i])
          IN  /\ DOMAIN T[i] = DOMAIN C[i]
              /\ RGt0(total)
                    => /\ \A j \in DOMAIN C[i] :
                              T[i][j][1] * total[1] * C[i][j][2]
                                  = C[i][j][1] * T[i][j][2] * total[2]
                       /\ tsum = One
              /\ (\A j \in DOMAIN T[i] : T[i][j] = Zero) <=> total = Zero
              /\ tsum \in {Zero, One}
C9_RowsNormalised ==
    /\ Constructed
          => /\ RowStochastic(self.countmat, self.transmat)
             /\ self.countmat = [i \in DOMAIN counts |-> [j \in DOMAIN counts |->
                                     <<counts[i][j], 1>>]]
    /\ Trimmed => RowStochastic(self.trim_countmat, self.trim_transmat)

\* C9's case: a matrix with an all-zero row and a row whose counts are split
\* over two columns, both in the full and in a trimmed matrix that lost a node
C9_Witness ==
    /\ Trimmed
    /\ \E i \in Idx(self.nnodes) : \E j \in Idx(self.nnodes) :
           self.transmat[i][j] = Half
    /\ \E i \in Idx(self.nnodes) : RowSum(self.countmat[i]) = Zero
    /\ self.trim_nnodes >= 1 /\ self.trim_nnodes < self.nnodes
    /\ \E i \in Idx(self.trim_nnodes) : RowSum(self.trim_transmat[i]) = One

\* what C10 says of the graph's nodes, its edges and the matrices
GraphMatchesTransmat ==
    LET W == WeightedEdges(self.graph)
        E == EdgeSet(self.graph)
    IN  /\ DOMAIN self.graph.node = Idx(self.nnodes)
        /\ self.nnodes = Dim(counts)
        /\ \A i \in Idx(self.nnodes) : \A j \in Idx(self.nnodes) :
               <<i, j>> \in E <=> RGt0(self.transmat[i][j])
        /\ \A e \in W : e[3] = self.transmat[e[1]][e[2]]
        /\ Cardinality(W) = Cardinality(E)
        /\ self.countmat = [i \in DOMAIN counts |-> [j \in DOMAIN counts |->
                                <<counts[i][j], 1>>]]
        /\ \A i \in Idx(self.nnodes) :
               LET total == RowSum(self.countmat[i])
               IN  \A j \in Idx(self.nnodes) :
                       self.transmat[i][j][1] * total[1]
                           = self.countmat[i][j][1] * self.transmat[i][j][2]

(* C10 as stated: in every state reached by add_attr and trim_graph calls the *)
(* graph has exactly the nodes 0..N-1, each with ID equal to its index, an    *)
(* edge (i, j) iff transmat[i,j] > 0 with that weight, and countmat and       *)
(* transmat are as constructed.                                               *)
C10_Original ==
    Constructed
    => /\ GraphMatchesTransmat
       /\ \A i \in Idx(self.nnodes) : self.graph.node[i].ID = i

(* C10 as amended: the same, except that the ID attributes are the indices    *)
(* only until add_attr is called with the name "ID"; from then on they are    *)
(* the values that call supplied.                                             *)
C10_GraphInvariant ==
    Constructed
    => /\ GraphMatchesTransmat
       /\ \/ \A i \in Idx(self.nnodes) : self.graph.node[i].ID = i
          \/ \E values \in AttrValues(self.nnodes) :
                 \A i \in Idx(self.nnodes) : self.graph.node[i].ID = values[i]

\* C10's case: add_attr and trim_graph have both run on a graph with an edge
\* in one direction only
C10_Witness ==
    /\ Trimmed
    /\ \E i \in Idx(self.nnodes) : "w" \in DOMAIN self.graph.node[i]
    /\ \E i \in Idx(self.nnodes) : \E j \in Idx(self.nnodes) :
           <<i, j>> \in EdgeSet(self.graph) /\ <<j, i>> \notin EdgeSet(self.graph)

====
